---------------------------- MODULE Spec2Model ----------------------------
(***************************************************************************)
(* Model of nbexplode.py: explode(nb) and the __main__ loop over the input *)
(* notebooks.                                                              *)
(*                                                                         *)
(* A Python string is a sequence of one-character strings; the constant    *)
(* pieces of loader_template and footer_template are single tokens of such *)
(* a sequence.  A Python value of a parameter list is a tagged record (an  *)
(* int or a str).  A cell's source is a record: `input` is its text and    *)
(* `code` the statements Python's exec runs for that text.  Of the first   *)
(* cell of a notebook that explode did not write, `input` keeps the first  *)
(* line (the line startswith looks at) and `code` stands for the rest.     *)
(*                                                                         *)
(* A file holds the document writes() returned when it was written.  The   *)
(* logger's info lines, the print of outfile and the flags --inplace,      *)
(* --stdout, --verbose and --quiet change nothing that is modelled here.   *)
(***************************************************************************)
EXTENDS Integers, Sequences, FiniteSets, TLC

\* Bounds of the model.
MaxVals == 2        \* longest list of candidate values of one parameter
MaxInputs == 2      \* most input paths on the command line

\* "%04d": the zero-padded width of the index in an output name.
IndexWidth == 4

-----------------------------------------------------------------------------
\* Strings

Range(s) == {s[k] : k \in DOMAIN s}

UpperAlpha == <<"A","B","C","D","E","F","G","H","I","J","K","L","M",
                "N","O","P","Q","R","S","T","U","V","W","X","Y","Z">>
LowerAlpha == <<"a","b","c","d","e","f","g","h","i","j","k","l","m",
                "n","o","p","q","r","s","t","u","v","w","x","y","z">>

\* the lower-case letter of every upper-case letter
LowerOf == [c \in Range(UpperAlpha) |->
               LowerAlpha[CHOOSE k \in DOMAIN UpperAlpha : UpperAlpha[k] = c]]

\* c.lower() of one character
LowerChar(c) == IF c \in DOMAIN LowerOf THEN LowerOf[c] ELSE c

\* s.lower()
Lower(s) == [k \in DOMAIN s |-> LowerChar(s[k])]

\* s.startswith(p)
StartsWith(s, p) == Len(s) >= Len(p) /\ \A k \in DOMAIN p : s[k] = p[k]

\* sep.join(parts)
RECURSIVE Join(_, _)
Join(sep, parts) ==
    IF parts = <<>> THEN <<>>
    ELSE IF Len(parts) = 1 THEN parts[1]
    ELSE parts[1] \o sep \o Join(sep, Tail(parts))

DigitChars == <<"0","1","2","3","4","5","6","7","8","9">>

\* "%d" % n, n >= 0
RECURSIVE Digits(_)
Digits(n) ==
    IF n < 10 THEN <<DigitChars[n + 1]>>
    ELSE Digits(n \div 10) \o <<DigitChars[(n % 10) + 1]>>

\* "%04d" % n: zero-padded to IndexWidth, longer when n needs more digits
Fmt04d(n) ==
    LET d == Digits(n)
        pad == IF Len(d) < IndexWidth THEN IndexWidth - Len(d) ELSE 0
    IN  [k \in 1..pad |-> "0"] \o d

Ext == <<".","i","p","y","n","b">>

\* s.rsplit('.ipynb')[0]: the text before the first occurrence of '.ipynb'
Basename(s) ==
    LET hits == {k \in 1..Len(s) :
                    k + Len(Ext) - 1 <= Len(s)
                    /\ SubSeq(s, k, k + Len(Ext) - 1) = Ext}
    IN  IF hits = {} THEN s
        ELSE SubSeq(s, 1, (CHOOSE k \in hits : \A m \in hits : k <= m) - 1)

-----------------------------------------------------------------------------
\* Python values of the parameter lists

PyInt(n) == [tag |-> "int", num |-> n, str |-> <<>>]
PyStr(s) == [tag |-> "str", num |-> 0, str |-> s]

\* "%s" % v
Str(v) == IF v.tag = "int" THEN Digits(v.num) ELSE v.str

\* repr(v)
Repr(v) == IF v.tag = "int" THEN Digits(v.num) ELSE <<"'">> \o v.str \o <<"'">>

\* "%s" % list
StrList(l) == <<"[">> \o Join(<<",", " ">>, [k \in DOMAIN l |-> Repr(l[k])]) \o <<"]">>

-----------------------------------------------------------------------------
\* Templates

Marker == <<"#","#"," ","p","a","r","a","m","e","t","e","r","s">>

LoaderA == "\n# What follows is a code snippet to load the __saved__ variables [...]\ntry:\n    saved_npz = '"
LoaderB == ".npz';\n    import numpy as np; _loaded = np.load(saved_npz); [...]\n    raise AlreadyRan([...])\nexcept IOError:\n    pass\n__save__ = "
LoaderC == "\n"

\* loader_template % (outfile, saved)
loader_template_Outname(outfile, saved) ==
    <<LoaderA>> \o SubSeq(outfile, 1, Len(outfile) - 6) \o <<LoaderB>>
        \o StrList(saved) \o <<LoaderC>>
loader_template(outfile, saved) ==
    <<LoaderA>> \o outfile \o <<LoaderB>> \o StrList(saved) \o <<LoaderC>>

FooterA == "## autogenerated saving cell\nnp.savez('"
FooterB == "', "
FooterC == ")\n"

\* footer_template % (outfile, saved_params)
footer_template(outfile, sp) ==
    <<FooterA>> \o outfile \o <<FooterB>> \o sp \o <<FooterC>>

\* "## Parameterized by %s\n" % ipynb
Header_CloseToMarker(name) ==
    <<"#","#"," ","P","a","r","a","m","e","t","e","r","s"," ","o","f"," ">>
        \o name \o <<"\n">>
Header(name) ==
    <<"#","#"," ","P","a","r","a","m","e","t","e","r","i","z","e","d"," ","b","y"," ">>
        \o name \o <<"\n">>

-----------------------------------------------------------------------------
\* The first cell as Python code, and exec

SaveKey == <<"_","_","s","a","v","e","_","_">>

\* One statement of a cell.  op "bind": name = value, where the value is a
\* list of vals (kind "list") or not iterable (kind "scalar"); op "raise":
\* a statement whose execution raises.
Bind(name, vals) == [op |-> "bind", name |-> name, kind |-> "list", vals |-> vals]
BindScalar(name, v) == [op |-> "bind", name |-> name, kind |-> "scalar", vals |-> <<v>>]
Raise == [op |-> "raise", name |-> <<>>, kind |-> "list", vals |-> <<>>]

\* OrderedDict: a sequence of [key, kind, vals], in order of first insertion.
HasKey(od, k) == \E j \in DOMAIN od : od[j].key = k

\* od[k] = value: a new key goes last, a key already there keeps its place
SetItem(od, k, kind, vals) ==
    IF HasKey(od, k)
    THEN [j \in DOMAIN od |->
            IF od[j].key = k THEN [key |-> k, kind |-> kind, vals |-> vals] ELSE od[j]]
    ELSE Append(od, [key |-> k, kind |-> kind, vals |-> vals])

\* od.pop(k, default): the mapping without k
Without(od, k) == SelectSeq(od, LAMBDA e : e.key # k)

\* od.pop(k, []): the value popped
PopValue(od, k) ==
    IF HasKey(od, k) THEN od[CHOOSE j \in DOMAIN od : od[j].key = k].vals ELSE <<>>

\* exec(code, globals(), params): the statements run in order into params,
\* up to the first one that raises
RECURSIVE Exec(_, _)
Exec(code, od) ==
    IF code = <<>> THEN [ok |-> TRUE, params |-> od]
    ELSE IF Head(code).op = "raise" THEN [ok |-> FALSE, params |-> od]
    ELSE Exec(Tail(code), SetItem(od, Head(code).name, Head(code).kind, Head(code).vals))

\* params.pop('__save__', []) leaves the parameters
Params(od) == Without(od, SaveKey)

\* params.values() can all be iterated
Iterable(od) == \A j \in DOMAIN od : od[j].kind = "list"

\* itertools.product(*pools): the first pool varies slowest
RECURSIVE Flatten(_)
Flatten(ss) == IF ss = <<>> THEN <<>> ELSE Head(ss) \o Flatten(Tail(ss))

RECURSIVE Product_FirstFastest(_)
Product_FirstFastest(pools) ==
    IF pools = <<>> THEN << <<>> >>
    ELSE LET rest == Product_FirstFastest(Tail(pools))
             h == Head(pools)
         IN  Flatten([m \in DOMAIN rest |-> [j \in DOMAIN h |-> <<h[j]>> \o rest[m]]])

RECURSIVE Product(_)
Product(pools) ==
    IF pools = <<>> THEN << <<>> >>
    ELSE LET rest == Product(Tail(pools))
             h == Head(pools)
         IN  Flatten([j \in DOMAIN h |-> [m \in DOMAIN rest |-> <<h[j]>> \o rest[m]]])

\* ", ".join(["%s=%s" % (var, var) for var in saved])
SavedParams(saved) ==
    Join(<<",", " ">>, [k \in DOMAIN saved |-> Str(saved[k]) \o <<"=">> \o Str(saved[k])])

\* '%s = %s' % (k, repr(v)) for k, v in zip(params.keys(), p)
Assignments_Str(od, p) ==
    [j \in DOMAIN od |-> od[j].key \o <<" ","="," ">> \o Str(p[j])]
Assignments(od, p) ==
    [j \in DOMAIN od |-> od[j].key \o <<" ","="," ">> \o Repr(p[j])]

\* the statements of a rewritten first cell: one scalar binding a parameter,
\* and the loader's __save__ = [...] when there is a loader
RewrittenCode(od, p, saved) ==
    [j \in DOMAIN od |-> BindScalar(od[j].key, p[j])]
        \o (IF Len(saved) > 0 THEN <<Bind(SaveKey, saved)>> ELSE <<>>)

\* args.prefix + basename + "%04d" % i
Outname(pre, name, n) == pre \o Basename(name) \o Fmt04d(n)

\* outname + ".ipynb"
Outfile(pre, name, n) == Outname(pre, name, n) \o Ext

-----------------------------------------------------------------------------
\* Notebooks

Cell(text, code) == [input |-> text, code |-> code]

\* writes(nb, 'json'): the document as serialized at the moment of the call
Writes(cells) == [nbformat |-> "json", worksheets |-> <<cells>>]

\* reads(text, 'json').worksheets[0].cells
Reads(doc) == doc.worksheets[1]

\* first_cell.input.lower().startswith("## parameters")
HasMarker(cells) == StartsWith(Lower(cells[1].input), Marker)

\* if saved: nb.worksheets[0].cells.append(last_cell)
AppendSave_Always(cells, cell, saved) == Append(cells, cell)
AppendSave(cells, cell, saved) ==
    IF saved # <<>> THEN Append(cells, cell) ELSE cells

\* first_cell.input = ...; last_cell.input = ...: first_cell is cells[0], and
\* last_cell is the appended cell when one was appended (aliased), otherwise
\* a copy that is in no worksheet
Rewrite_StaleLast(cells, first, last, aliased) ==
    [k \in DOMAIN cells |-> IF k = 1 THEN first ELSE cells[k]]
Rewrite(cells, first, last, aliased) ==
    [k \in DOMAIN cells |->
        IF k = 1 THEN first
        ELSE IF aliased /\ k = Len(cells) THEN last
        ELSE cells[k]]

\* with open(outfile, 'w') as f: f.write(nb_as_json)
WriteFile_Backup(d, name, doc) ==
    [n \in DOMAIN d \cup {name} \cup (IF name \in DOMAIN d THEN {name \o <<"~">>} ELSE {}) |->
        IF n = name THEN doc
        ELSE IF n \in DOMAIN d THEN d[n] ELSE d[name]]
WriteFile(d, name, doc) ==
    [n \in DOMAIN d \cup {name} |-> IF n = name THEN doc ELSE d[n]]

-----------------------------------------------------------------------------
\* The inputs of the model: command lines and the notebooks on disk

NameX == <<"x">>
NameY == <<"y">>

\* the j-th candidate value: 6, 'a', 18, 'a', 30, ...
PoolAt(j) == IF j % 2 = 1 THEN PyInt(6 * j) ELSE PyStr(<<"a">>)

\* lists of k candidate values
ValsY(k) == [j \in 1..k |-> PoolAt(j)]
ValsX(k) == [j \in 1..k |-> PoolAt(j + 1)]

ParamParts ==
    { <<>> }
    \cup { <<Bind(NameY, ValsY(k))>> : k \in 0..MaxVals }
    \cup { <<Bind(NameY, ValsY(k1)), Bind(NameX, ValsX(k2))>> :
              k1 \in 0..MaxVals, k2 \in 0..MaxVals }

SaveParts ==
    { <<>>,
      <<Bind(SaveKey, <<>>)>>,
      <<Bind(SaveKey, <<PyStr(NameY), PyStr(NameX)>>)>> }

\* a name bound twice; a value that is no sequence; the save-list between
\* two parameters
SpecialPrograms ==
    { <<Bind(NameX, ValsX(1)), Bind(NameY, ValsY(MaxVals)), Bind(NameX, ValsX(MaxVals))>>,
      <<Bind(NameY, ValsY(1)), BindScalar(NameX, PyInt(5))>>,
      <<Bind(NameY, ValsY(MaxVals)), Bind(SaveKey, <<PyStr(NameY)>>), Bind(NameX, ValsX(1))>> }

Programs == {sv \o pp : sv \in SaveParts, pp \in ParamParts} \cup SpecialPrograms

ParametersLine == <<"#","#"," ","P","a","r","a","m","e","t","e","r","s","\n">>
UpperLine == <<"#","#"," ","P","A","R","A","M","E","T","E","R","S","\n">>
NearMissLine == <<"#","#"," ","P","a","r","a","m","e","t","e","r"," ","s","w","e","e","p","\n">>

OtherCell == Cell(<<"p","l","o","t","(","x",")">>, <<>>)

\* the notebooks under study: a parameter cell and one more cell
StudyNotebooks == {<<Cell(ParametersLine, prog), OtherCell>> : prog \in Programs}

\* the notebooks that accompany them on a command line
NoMarkerNb == <<Cell(NearMissLine, <<Bind(NameY, ValsY(1))>>)>>
RaisingNb == <<Cell(ParametersLine, <<Bind(NameY, ValsY(1)), Raise>>), OtherCell>>
UpperNb == <<Cell(UpperLine, <<Bind(SaveKey, <<PyStr(NameY)>>), Bind(NameY, ValsY(MaxVals))>>)>>
Companions == {NoMarkerNb, RaisingNb, UpperNb}

InputNames ==
    { <<"a">> \o Ext, <<"a","0","0","0","0">> \o Ext }

Prefixes == { <<>>, <<"p">> }

CommandLines == UNION {[1..n -> InputNames] : n \in 1..MaxInputs}

-----------------------------------------------------------------------------
\* State

VARIABLES
    prefix,      \* args.prefix
    inputs,      \* args.inputs
    disk,        \* the files: name -> document
    pc,          \* "main", "explode", "loop", "done", "crashed"
    idx,         \* how many of args.inputs the for loop has taken; ipynb = inputs[idx]
    nb,          \* the cells of nb.worksheets[0]
    last_cell,   \* explode's last_cell
    params,      \* explode's params, after the pop
    saved,       \* explode's saved
    prod,        \* the tuples of itertools.product(*params.values())
    i,           \* how many of them the loop has taken
    log,         \* the warnings logged by this process
    second,      \* this process is the second run of the same command line
    orig,        \* history: nb as read from disk
    disk0,       \* history: the files when explode was called
    written,     \* history: the names this call of explode wrote, in order
    runlog,      \* history: the <<name, document>> this process wrote, in order
    prevlog,     \* history: runlog of the first run
    prev_disk    \* history: the files when the first run ended

vars == <<prefix, inputs, disk, pc, idx, nb, last_cell, params, saved, prod, i,
          log, second, orig, disk0, written, runlog, prevlog, prev_disk>>

args == <<prefix, inputs>>
locals == <<last_cell, params, saved, prod, i>>
history == <<orig, disk0, written, runlog, prevlog, prev_disk>>

\* the global ipynb of the for loop
ipynb == inputs[idx]

NoCell == Cell(<<>>, <<>>)

Init ==
    /\ prefix \in Prefixes
    /\ inputs \in CommandLines
    /\ disk \in [Range(inputs) -> {Writes(c) : c \in StudyNotebooks \cup Companions}]
    /\ Cardinality({n \in DOMAIN disk : Reads(disk[n]) \notin Companions}) <= 1
    /\ pc = "main"
    /\ idx = 0
    /\ nb = <<>>
    /\ last_cell = NoCell
    /\ params = <<>>
    /\ saved = <<>>
    /\ prod = <<>>
    /\ i = 0
    /\ log = <<>>
    /\ second = FALSE
    /\ orig = <<>>
    /\ disk0 = disk
    /\ written = <<>>
    /\ runlog = <<>>
    /\ prevlog = <<>>
    /\ prev_disk = disk

-----------------------------------------------------------------------------
\* __main__: for ipynb in args.inputs

\* with open(ipynb) as f: nb = reads(f.read(), 'json'); explode(nb, ...)
ReadInput ==
    /\ pc = "main"
    /\ idx < Len(inputs)
    /\ idx' = idx + 1
    /\ nb' = Reads(disk[inputs[idx + 1]])
    /\ pc' = "explode"
    /\ last_cell' = NoCell
    /\ params' = <<>>
    /\ saved' = <<>>
    /\ prod' = <<>>
    /\ i' = 0
    /\ orig' = nb'
    /\ disk0' = disk
    /\ written' = <<>>
    /\ UNCHANGED <<args, disk, log, second, runlog, prevlog, prev_disk>>

\* the for loop is exhausted: the process ends
Finish ==
    /\ pc = "main"
    /\ idx = Len(inputs)
    /\ pc' = "done"
    /\ UNCHANGED <<args, disk, idx, nb, locals, log, second, history>>

\* the same command line is run again, on the files the first run left
Rerun ==
    /\ pc = "done"
    /\ ~second
    /\ second' = TRUE
    /\ pc' = "main"
    /\ idx' = 0
    /\ nb' = <<>>
    /\ last_cell' = NoCell
    /\ params' = <<>>
    /\ saved' = <<>>
    /\ prod' = <<>>
    /\ i' = 0
    /\ log' = <<>>
    /\ orig' = <<>>
    /\ disk0' = disk
    /\ written' = <<>>
    /\ prevlog' = runlog
    /\ runlog' = <<>>
    /\ prev_disk' = disk
    /\ UNCHANGED <<args, disk>>

-----------------------------------------------------------------------------
\* explode(nb)

Warning == "no parameters found in this notebook"

\* the marker is missing: log.warning(...); return
NoParameters_Raises ==
    /\ pc = "explode"
    /\ ~HasMarker(nb)
    /\ log' = Append(log, [input |-> idx, msg |-> Warning])
    /\ pc' = "crashed"
    /\ UNCHANGED <<args, disk, idx, nb, locals, second, history>>
NoParameters ==
    /\ pc = "explode"
    /\ ~HasMarker(nb)
    /\ log' = Append(log, [input |-> idx, msg |-> Warning])
    /\ pc' = "main"
    /\ UNCHANGED <<args, disk, idx, nb, locals, second, history>>

\* exec(first_cell.input, globals(), params) raises: nothing catches it
ExecRaises_Swallowed ==
    /\ pc = "explode"
    /\ HasMarker(nb)
    /\ ~Exec(nb[1].code, <<>>).ok
    /\ pc' = "main"
    /\ UNCHANGED <<args, disk, idx, nb, locals, log, second, history>>
ExecRaises ==
    /\ pc = "explode"
    /\ HasMarker(nb)
    /\ ~Exec(nb[1].code, <<>>).ok
    /\ pc' = "crashed"
    /\ UNCHANGED <<args, disk, idx, nb, locals, log, second, history>>

\* lines 77-85 up to the call of itertools.product, which raises TypeError
\* for a value that cannot be iterated
ProductRaises ==
    /\ pc = "explode"
    /\ HasMarker(nb)
    /\ LET ex == Exec(nb[1].code, <<>>)
           sv == PopValue(ex.params, SaveKey)
       IN  /\ ex.ok
           /\ ~Iterable(Params(ex.params))
           /\ params' = Params(ex.params)
           /\ saved' = sv
           /\ last_cell' = nb[1]
           /\ nb' = AppendSave(nb, nb[1], sv)
    /\ pc' = "crashed"
    /\ UNCHANGED <<args, disk, idx, prod, i, log, second, history>>

\* lines 77-85: params, saved, last_cell, the append, the product
Setup ==
    /\ pc = "explode"
    /\ HasMarker(nb)
    /\ LET ex == Exec(nb[1].code, <<>>)
           sv == PopValue(ex.params, SaveKey)
           ps == Params(ex.params)
       IN  /\ ex.ok
           /\ Iterable(ps)
           /\ params' = ps
           /\ saved' = sv
           /\ last_cell' = nb[1]
           /\ nb' = AppendSave(nb, nb[1], sv)
           /\ prod' = Product([j \in DOMAIN ps |-> ps[j].vals])
    /\ i' = 0
    /\ pc' = "loop"
    /\ UNCHANGED <<args, disk, idx, log, second, history>>

\* one pass of the loop, lines 86-104, on a deep copy of the document
WriteCombination_Clone ==
    /\ pc = "loop"
    /\ i < Len(prod)
    /\ LET p == prod[i + 1]
           outfile == Outfile(prefix, ipynb, i)
           loader == IF Len(saved) > 0 THEN loader_template(outfile, saved) ELSE <<>>
           first == Cell(Header(ipynb) \o Join(<<"\n">>, Assignments(params, p)) \o loader,
                         RewrittenCode(params, p, saved))
           last == Cell(footer_template(outfile, SavedParams(saved)), <<>>)
           cells == Rewrite(nb, first, last, saved # <<>>)
       IN  /\ disk' = WriteFile(disk, outfile, Writes(cells))
           /\ written' = Append(written, outfile)
           /\ runlog' = Append(runlog, <<outfile, Writes(cells)>>)
    /\ i' = i + 1
    /\ UNCHANGED <<args, pc, idx, nb, last_cell, params, saved, prod, log, second,
                   orig, disk0, prevlog, prev_disk>>

\* one pass of the loop, lines 86-104: the cells are rewritten in place,
\* the document is serialized and written
WriteCombination ==
    /\ pc = "loop"
    /\ i < Len(prod)
    /\ LET p == prod[i + 1]
           outfile == Outfile(prefix, ipynb, i)
           loader == IF Len(saved) > 0 THEN loader_template(outfile, saved) ELSE <<>>
           first == Cell(Header(ipynb) \o Join(<<"\n">>, Assignments(params, p)) \o loader,
                         RewrittenCode(params, p, saved))
           last == Cell(footer_template(outfile, SavedParams(saved)), <<>>)
           cells == Rewrite(nb, first, last, saved # <<>>)
       IN  /\ nb' = cells
           /\ last_cell' = last
           /\ disk' = WriteFile(disk, outfile, Writes(cells))
           /\ written' = Append(written, outfile)
           /\ runlog' = Append(runlog, <<outfile, Writes(cells)>>)
    /\ i' = i + 1
    /\ UNCHANGED <<args, pc, idx, params, saved, prod, log, second,
                   orig, disk0, prevlog, prev_disk>>

\* the product is exhausted: explode returns
EndExplode ==
    /\ pc = "loop"
    /\ i = Len(prod)
    /\ pc' = "main"
    /\ UNCHANGED <<args, disk, idx, nb, locals, log, second, history>>

Next ==
    \/ ReadInput
    \/ NoParameters
    \/ ExecRaises
    \/ ProductRaises
    \/ Setup
    \/ WriteCombination
    \/ EndExplode
    \/ Finish
    \/ Rerun

Spec == Init /\ [][Next]_vars

TypeOK ==
    /\ pc \in {"main", "explode", "loop", "done", "crashed"}
    /\ idx \in 0..Len(inputs)
    /\ i \in 0..Len(prod)

-----------------------------------------------------------------------------
\* What a first cell declares, read off its statements

RECURSIVE Ascending(_)
Ascending(S) ==
    IF S = {} THEN <<>>
    ELSE LET mn == CHOOSE x \in S : \A y \in S : x <= y
         IN  <<mn>> \o Ascending(S \ {mn})

\* the places where a parameter name is bound for the first time
DeclaredAt(code) ==
    Ascending({j \in DOMAIN code :
                  /\ code[j].name # SaveKey
                  /\ \A m \in 1..(j - 1) : code[m].name # code[j].name})

\* the value a name is left with
LastValue(code, name) ==
    code[CHOOSE j \in DOMAIN code :
            /\ code[j].name = name
            /\ \A m \in (j + 1)..Len(code) : code[m].name # name].vals

\* the parameter names in declared order, and their lists of values
DeclaredNames(code) == [k \in DOMAIN DeclaredAt(code) |-> code[DeclaredAt(code)[k]].name]
DeclaredValues(code) ==
    [k \in DOMAIN DeclaredAt(code) |-> LastValue(code, code[DeclaredAt(code)[k]].name)]

\* the save-list, empty when none is declared
DeclaredSave(code) ==
    IF \E j \in DOMAIN code : code[j].name = SaveKey THEN LastValue(code, SaveKey) ELSE <<>>

\* k_from * ... * k_n
RECURSIVE Card(_, _)
Card(pools, from) ==
    IF from > Len(pools) THEN 1 ELSE Len(pools[from]) * Card(pools, from + 1)

\* the m-th tuple (from 0) of the lexicographic product: the last axis is
\* the least significant digit of m
TupleAt(pools, m) ==
    [j \in DOMAIN pools |->
        pools[j][((m \div Card(pools, j + 1)) % Len(pools[j])) + 1]]

\* the number a string of decimal digits denotes
RECURSIVE Number(_)
Number(ds) ==
    IF ds = <<>> THEN 0
    ELSE 10 * Number(SubSeq(ds, 1, Len(ds) - 1))
         + (CHOOSE d \in 0..9 : DigitChars[d + 1] = ds[Len(ds)])

\* the text between the tokens a and b of a text that holds both
Between(text, a, b) ==
    SubSeq(text,
           (CHOOSE k \in DOMAIN text : text[k] = a) + 1,
           (CHOOSE k \in DOMAIN text : text[k] = b) - 1)

\* the call of explode in progress is in its loop
InLoop == pc = "loop"

\* the last call of explode found the marker and returned
Returned == pc \in {"main", "done"} /\ idx >= 1 /\ HasMarker(orig)

\* the cells of the m-th file the call wrote, as they are on disk
FileCells(m) == Reads(disk[written[m]])

-----------------------------------------------------------------------------
\* C1: one call of explode on a notebook with the marker writes exactly
\* k1*...*kn files (none when a list is empty); their names are distinct,
\* end in the zero-padded indices 0..k1*...*kn-1 in order, and the file of
\* index m binds each parameter to the element of the m-th tuple of the
\* lexicographic product, the first declared parameter varying slowest.
C1_ProductFiles ==
    (InLoop \/ Returned) =>
        LET code == orig[1].code
            pools == DeclaredValues(code)
            N == Card(pools, 1)
        IN  /\ InLoop => Len(written) = i /\ Len(prod) = N
            /\ Returned => Len(written) = N
            /\ \A m \in DOMAIN written : \A m2 \in DOMAIN written :
                  m # m2 => written[m] # written[m2]
            /\ \A m \in DOMAIN written :
                  LET name == written[m]
                      stem == SubSeq(name, 1, Len(name) - Len(Ext) - IndexWidth)
                      digits == SubSeq(name, Len(stem) + 1, Len(stem) + IndexWidth)
                      bound == FileCells(m)[1].code
                  IN  /\ name = stem \o digits \o Ext
                      /\ stem = prefix \o Basename(ipynb)
                      /\ Number(digits) = m - 1
                      /\ \A j \in DOMAIN pools :
                            /\ bound[j].name = DeclaredNames(code)[j]
                            /\ bound[j].vals = <<TupleAt(pools, m - 1)[j]>>

\* a call that wrote the whole product of two lists of at least two values
C1_Witness ==
    /\ Returned
    /\ Len(params) = 2
    /\ Len(params[1].vals) >= 2
    /\ Len(params[2].vals) >= 2
    /\ Len(written) = Len(params[1].vals) * Len(params[2].vals)

\* C2: the first cell of every output file is the header naming the source
\* notebook, then exactly one line 'name = repr(value)' per declared
\* parameter (the __save__ sentinel is none), in declared order, the value
\* being the element of the file's product tuple; after the lines comes
\* nothing, or the loader.
C2_AssignmentLines ==
    (InLoop \/ Returned) =>
        LET code == orig[1].code
            names == DeclaredNames(code)
            pools == DeclaredValues(code)
        IN  \A m \in DOMAIN written :
                LET text == FileCells(m)[1].input
                    t == TupleAt(pools, m - 1)
                    lines == [j \in DOMAIN names |-> names[j] \o <<" ","="," ">> \o Repr(t[j])]
                    want == Header(ipynb) \o Join(<<"\n">>, lines)
                IN  /\ StartsWith(text, want)
                    /\ Len(text) > Len(want) => text[Len(want) + 1] = LoaderA

\* a file written for two parameters declared y before x, beside a
\* save-list, whose tuple holds a string
C2_Witness ==
    /\ InLoop
    /\ Len(written) >= 2
    /\ Len(params) = 2
    /\ params[1].key = NameY
    /\ saved # <<>>
    /\ \E j \in DOMAIN params : prod[Len(written)][j].tag = "str"

\* the last call of explode found no marker and is over
Skipped == orig # <<>> /\ ~HasMarker(orig) /\ pc # "explode"

\* C3: when the first cell does not begin, in any case of letters, with
\* '## Parameters', explode writes no file, leaves the document as it was,
\* logs a warning and returns without raising, and the loop over the inputs
\* goes on to the next path.
C3_MissingMarker ==
    Skipped =>
        /\ written = <<>>
        /\ disk = disk0
        /\ nb = orig
        /\ log # <<>>
        /\ log[Len(log)] = [input |-> idx, msg |-> Warning]
        /\ pc \in {"main", "done"}
        /\ (pc = "main" /\ idx < Len(inputs)) => ENABLED ReadInput

\* a later input wrote its files after the first input was skipped
C3_Witness ==
    /\ log # <<>>
    /\ log[1].input = 1
    /\ idx = 2
    /\ pc = "loop"
    /\ written # <<>>

\* C4: with no save-list declared (no __save__, or an empty one) every
\* output file has as many cells as the input notebook and its first cell
\* holds no loader snippet.
C4_NoSaveList ==
    ((InLoop \/ Returned) /\ DeclaredSave(orig[1].code) = <<>>) =>
        /\ Len(nb) = Len(orig)
        /\ \A m \in DOMAIN written :
              /\ Len(FileCells(m)) = Len(orig)
              /\ LoaderA \notin Range(FileCells(m)[1].input)
              /\ LoaderB \notin Range(FileCells(m)[1].input)

\* files written for a first cell that declares an empty __save__
C4_Witness ==
    /\ Returned
    /\ Len(written) >= 2
    /\ \E j \in DOMAIN orig[1].code : orig[1].code[j].name = SaveKey
    /\ DeclaredSave(orig[1].code) = <<>>

\* C5: with a non-empty save-list [s1..sm] the save cell is appended once
\* per call, so every output file has one cell more than the input
\* notebook, and the last cell of file m, as serialized, is the persistence
\* snippet naming file m itself with 's1=s1, ..., sm=sm' in save-list order.
C5_SaveCell ==
    ((InLoop \/ Returned) /\ DeclaredSave(orig[1].code) # <<>>) =>
        LET sv == DeclaredSave(orig[1].code)
            assoc == Join(<<",", " ">>,
                          [k \in DOMAIN sv |-> sv[k].str \o <<"=">> \o sv[k].str])
        IN  /\ Len(nb) = Len(orig) + 1
            /\ \A m \in DOMAIN written :
                  LET cells == FileCells(m)
                  IN  /\ Len(cells) = Len(orig) + 1
                      /\ cells[Len(cells)].input =
                            <<FooterA>> \o written[m] \o <<FooterB>> \o assoc \o <<FooterC>>

\* three or more files written with a save-list of two names
C5_Witness ==
    /\ InLoop
    /\ Len(saved) = 2
    /\ Len(written) >= 3

\* C6 as claimed: the loader reads, and the footer is given, the name of
\* the output file without its '.ipynb' extension.
C6_Original ==
    ((InLoop \/ Returned) /\ DeclaredSave(orig[1].code) # <<>>) =>
        \A m \in DOMAIN written :
            LET cells == FileCells(m)
                outname == SubSeq(written[m], 1, Len(written[m]) - Len(Ext))
            IN  /\ Between(cells[1].input, LoaderA, LoaderB) = outname
                /\ Between(cells[Len(cells)].input, FooterA, FooterB) = outname

\* C6 amended: with a non-empty save-list the loader of output file m reads
\* the archive '<outfile>.npz' and the footer of the same file calls
\* np.savez with '<outfile>', where outfile is the full name of output file
\* m, '.ipynb' included: <prefix><input-basename><4-digit index>.ipynb.
C6_Amended ==
    ((InLoop \/ Returned) /\ DeclaredSave(orig[1].code) # <<>>) =>
        \A m \in DOMAIN written :
            LET cells == FileCells(m)
            IN  /\ Between(cells[1].input, LoaderA, LoaderB)
                      = prefix \o Basename(ipynb) \o Fmt04d(m - 1) \o Ext
                /\ Between(cells[1].input, LoaderA, LoaderB) = written[m]
                /\ Between(cells[Len(cells)].input, FooterA, FooterB) = written[m]

\* files with a loader, written under a prefix
C6_Witness ==
    /\ InLoop
    /\ saved # <<>>
    /\ prefix # <<>>
    /\ Len(written) >= 2

\* C7 as claimed: explode works on a clone, so after it returns the first
\* cell of the document still holds the declaration source and the
\* worksheet holds the cells it held, but for the trailing save cell.
C7_Original ==
    Returned =>
        /\ nb[1] = orig[1]
        /\ nb = orig \/ SubSeq(nb, 1, Len(nb) - 1) = orig

\* C7 amended: explode rewrites the document passed to it in place.  After
\* a call that wrote N >= 1 files the document is the last document
\* serialized: its first cell holds the header and assignments of
\* combination N-1, not the declaration source.  With a non-empty
\* save-list one cell has been appended.  The cells between are unchanged,
\* and after a call that wrote no file the first cell is unchanged.
C7_Amended ==
    Returned =>
        LET sv == DeclaredSave(orig[1].code)
            N == Len(written)
        IN  /\ Len(nb) = Len(orig) + (IF sv # <<>> THEN 1 ELSE 0)
            /\ \A k \in 2..Len(orig) : nb[k] = orig[k]
            /\ N = 0 => nb[1] = orig[1]
            /\ N >= 1 => /\ nb = FileCells(N)
                         /\ nb[1] # orig[1]
                         /\ StartsWith(nb[1].input, Header(ipynb))

\* explode has returned after writing files beside a save-list
C7_Witness ==
    /\ Returned
    /\ Len(written) >= 2
    /\ saved # <<>>

\* the first cell of the notebook last read raises, and exec has run
ExecFailed ==
    /\ orig # <<>>
    /\ pc # "explode"
    /\ HasMarker(orig)
    /\ ~Exec(orig[1].code, <<>>).ok

\* C8: when the first cell fails to execute the exception ends the run:
\* nothing is written for that notebook, the files written for earlier
\* inputs stay as they are, and no later input is processed.
C8_ExecFailure ==
    ExecFailed =>
        /\ pc = "crashed"
        /\ written = <<>>
        /\ disk = disk0
        /\ \A k \in DOMAIN runlog : runlog[k][1] \in DOMAIN disk
        /\ ~ENABLED Next

\* the second input raises after the first input wrote its files
C8_Witness ==
    /\ ExecFailed
    /\ pc = "crashed"
    /\ idx = 2
    /\ runlog # <<>>

\* the first run wrote over none of the input files
SameInputs == \A k \in DOMAIN prevlog : prevlog[k][1] \notin Range(inputs)

\* C9: a second run of the same command line leaves exactly the files the
\* first run left, with the same contents; when the input files are still
\* what they were, it writes the same names with the same contents, in the
\* same order, as the first run.
C9_Idempotent ==
    (second /\ pc = "done") =>
        /\ disk = prev_disk
        /\ SameInputs => runlog = prevlog

\* a second run that wrote files is over
C9_Witness ==
    /\ second
    /\ pc = "done"
    /\ SameInputs
    /\ Len(runlog) >= 2

\* the documents written so far by this run and the run before
Produced == {runlog[k][2] : k \in DOMAIN runlog} \cup {prevlog[k][2] : k \in DOMAIN prevlog}

\* C10: no output document begins with the marker; after a call that wrote
\* a file neither does the document in memory; and explode given a
\* document it produced takes the missing-marker path and writes nothing.
C10_OutputsNotExploded ==
    /\ \A doc \in Produced : ~HasMarker(Reads(doc))
    /\ ((InLoop \/ Returned) /\ written # <<>>) => ~HasMarker(nb)
    /\ (orig # <<>> /\ pc # "explode" /\ Writes(orig) \in Produced) =>
          /\ written = <<>>
          /\ disk = disk0
          /\ pc \in {"main", "done"}
          /\ log # <<>>
          /\ log[Len(log)].input = idx

\* explode was given a document an earlier call wrote, and has returned
C10_Witness ==
    /\ pc = "main"
    /\ idx = 2
    /\ orig # <<>>
    /\ Writes(orig) \in Produced
    /\ written = <<>>

=============================================================================
